---- MODULE Spec2Model ----
(***************************************************************************)
(* State-machine model of the server_update builders:                      *)
(*   server_update/utils.py          RemoteResource (packaging)            *)
(*   server_update/homolog_genes.py  HomologGenes                          *)
(*   server_update/ncbi_gene_info.py GeneInfo and its __main__ loop        *)
(*   server_update/marker_genes.py   PanglaoDB, CellMarkerDB               *)
(*                                                                         *)
(* A text line is modelled after line.split('\t'): a non-empty sequence    *)
(* of fields.  A Python dict is a function whose DOMAIN is its key set.    *)
(* An uncaught Python exception ends the run with pc naming it.            *)
(***************************************************************************)
EXTENDS Integers, Sequences, FiniteSets, TLC

VARIABLES
    pc,             \* position of the running script
    files,          \* the working directory: file name -> content
    uncompresed_size, \* local of to_serverfile_format
    \* ---- homolog_genes.py
    homologs_remote, \* lines served under HomologGenes.download_url
    history_remote,  \* lines of gene_history.gz (header first)
    homologs,        \* prepare_data: the decoded response, split in lines
    gene_history,    \* prepare_data: result of load_gene_history
    line_i,          \* prepare_data: index of the next line of the for loop
    homologs_out,    \* prepare_data: rows collected so far
    log,             \* notes printed to log.txt
    \* ---- ncbi_gene_info.py
    gene_info_remote, \* lines of gene_info.gz (header first)
    cached,           \* requests_cache holds the response of download_url
    relevant_taxonomy_ids, \* module global, line 19
    gene_info,        \* module global, line 20: taxonomy id -> set of records
    species_i,        \* __main__: index of the species of the for loop
    species_genes,    \* prepare_data: the species' record set
    pending,          \* rows inserted on the connection and not committed
    parsing_msgs,     \* number of 'Parsing gene_info.gz ...' lines printed
    hr_calls,         \* number of handle_response calls that returned
    \* ---- marker_genes.py
    content_remote,   \* lines served under the builder's download_url
    content,          \* prepare_data: the decoded response, split in lines
    content_i,        \* prepare_data: index of the next line of the for loop
    genes_by_organism, \* PanglaoDB.prepare_data: organism -> list of entries
    unique_rows,      \* CellMarkerDB.prepare_data: keys seen
    data              \* CellMarkerDB.prepare_data: entries collected

hvars == <<homologs_remote, history_remote, homologs, gene_history, line_i,
           homologs_out, log>>
dvars == <<files, uncompresed_size>>
gvars == <<gene_info_remote, cached, relevant_taxonomy_ids, gene_info,
           species_i, species_genes, pending, parsing_msgs, hr_calls>>
mvars == <<content_remote, content, content_i, genes_by_organism, unique_rows,
           data>>
vars == <<pc, dvars, hvars, gvars, mvars>>

----------------------------------------------------------------------------
(* Generic helpers: Python dict and list operations.                       *)

\* d.get(k, None): <<v>> when k is a key, <<>> (None) otherwise.
DictGet(d, k) == IF k \in DOMAIN d THEN <<d[k]>> ELSE <<>>

\* d[k] = v (a later write of the same key replaces the earlier one).
DictSet(d, k, v) == (k :> v) @@ d

\* del d[k] / os.remove
DictDel(d, k) == [x \in (DOMAIN d) \ {k} |-> d[x]]

EmptyDict == <<>>

\* columns[c] with a 0-based column index c; defined only when c < len.
Col(columns, c) == columns[c + 1]

\* True when columns[c] raises IndexError.
IndexError(columns, c) == c + 1 > Len(columns)

----------------------------------------------------------------------------
(* Taxonomy directory (orangecontrib.bioinformatics.ncbi.taxonomy).        *)

\* common_taxids(): the root species, in the order the directory lists them.
common_taxids == <<"9606", "10090">>

\* taxonomy_db.get_all_strains(tax)
get_all_strains(tax) == IF tax = "9606" THEN <<"63221">> ELSE <<>>

SeqRange(s) == {s[i] : i \in 1..Len(s)}

----------------------------------------------------------------------------
(* RemoteResource.to_serverfile_format and create_info_file (utils.py).    *)

\* A file's content; size is os.stat(name).st_size of the uncompressed
\* content, counted in records.
Raw(rows, size) == [compressed |-> FALSE, data |-> rows, size |-> size]
Gz(file) == [compressed |-> TRUE, data |-> file.data, size |-> file.size]

StSize(file) == file.size

TempName(file_name) == file_name \o ".temp"
InfoName(file_name) == file_name \o ".info"

\* info_file_schema updated with the keyword arguments of create_info_file
InfoDict(domain, file_name, title, uncompressed) ==
    [domain |-> domain, filename |-> file_name, source |-> "server_file",
     title |-> title, uncompressed |-> uncompressed, compression |-> "gz"]

\* lines 79-83: stat the file and gzip it into file_name.temp
Compress(file_name, from, to) ==
    /\ pc = from
    /\ file_name \in DOMAIN files
    /\ uncompresed_size' = StSize(files[file_name])
    /\ files' = DictSet(files, TempName(file_name), Gz(files[file_name]))
    /\ pc' = to

\* line 85: os.remove(self.file_name)
Remove(file_name, from, to) ==
    /\ pc = from
    /\ files' = DictDel(files, file_name)
    /\ pc' = to
    /\ UNCHANGED uncompresed_size

\* line 86: os.rename(self.file_name + '.temp', self.file_name)
Rename(file_name, from, to) ==
    /\ pc = from
    /\ files' = DictSet(DictDel(files, TempName(file_name)), file_name,
                        files[TempName(file_name)])
    /\ pc' = to
    /\ UNCHANGED uncompresed_size

\* lines 88-93 and 67-76: write the .info sidecar
CreateInfoFile(domain, file_name, title, from, to) ==
    /\ pc = from
    /\ files' = DictSet(files, InfoName(file_name),
                        InfoDict(domain, file_name, title, uncompresed_size))
    /\ pc' = to
    /\ UNCHANGED uncompresed_size

----------------------------------------------------------------------------
(* HomologGenes (homolog_genes.py).                                        *)

group_id == 0
tax_id == 1
entrez_id == 2

taxonomy_col == 0
current_id_col == 1
discontinued_id_col == 2

HomologFile == "homologene.tab"
HomologHeader == <<"group_id", "tax_id", "entrez_id">>
HistoryHeader == <<"#tax_id", "GeneID", "Discontinued_GeneID">>

\* Bounds of the feeds explored.
MaxHomologLines == 2
MaxHistoryLines == 2

SeqsUpTo(S, lo, hi) == UNION {[1..n -> S] : n \in lo..hi}

HomologTax == {"9606", "1"}
HomologGene == {"a", "b"}

\* Lines of the homolog feed: well-formed ones, and lines with fewer than
\* three fields (the empty line <<"">> is what an empty response splits to).
HomologLines ==
    {<<"5", t, g>> : t \in HomologTax, g \in HomologGene}
        \cup {<<"5", "9606">>, <<"">>}

\* Lines of the history feed (tax, current id or '-', discontinued id).
HistoryLines ==
    {l \in {<<t, c, d>> : t \in HomologTax, c \in HomologGene \cup {"-"},
                                d \in HomologGene} : l[2] # l[3]}
        \cup {<<"9606">>}

\* HomologGenes.load_gene_history, lines 36-38: the loop over the lines that
\* follow the header.  The result is [ok, map]: ok is FALSE when a line
\* raised IndexError.
RECURSIVE LoadLoop(_, _)
LoadLoop(lines, acc) ==
    IF lines = <<>> THEN [ok |-> TRUE, map |-> acc]
    ELSE LET info == Head(lines) IN
         IF IndexError(info, discontinued_id_col)
         THEN [ok |-> FALSE, map |-> acc]
         ELSE LoadLoop(Tail(lines),
                       DictSet(acc, <<Col(info, taxonomy_col),
                                      Col(info, discontinued_id_col)>>,
                               Col(info, current_id_col)))

\* load_gene_history: file.readline() skips the header, the loop reads the rest
load_gene_history(file) ==
    LoadLoop(IF file = <<>> THEN <<>> ELSE Tail(file), EmptyDict)

HInit ==
    /\ homologs_remote \in SeqsUpTo(HomologLines, 1, MaxHomologLines)
    /\ history_remote \in
         {<<HistoryHeader>> \o b : b \in SeqsUpTo(HistoryLines, 0, MaxHistoryLines)}
    /\ homologs = <<>>
    /\ gene_history = EmptyDict
    /\ line_i = 0
    /\ homologs_out = <<>>
    /\ log = <<>>

DiskInit ==
    /\ files = EmptyDict
    /\ uncompresed_size = 0

\* prepare_data line 46-47: fetch the homolog feed and decode it
HFetch ==
    /\ pc = "start"
    /\ homologs' = homologs_remote
    /\ pc' = "history"
    /\ UNCHANGED <<dvars, homologs_remote, history_remote, gene_history,
                   line_i, homologs_out, log, gvars, mvars>>

\* RemoteResource.fetch_url re-raises an HTTP or connection error
HFetchFails ==
    /\ pc \in {"start", "history"}
    /\ pc' = "RequestException"
    /\ UNCHANGED <<dvars, hvars, gvars, mvars>>

\* prepare_data lines 48-57: load the history, open the log, start the rows
HLoadHistory ==
    /\ pc = "history"
    /\ LET r == load_gene_history(history_remote) IN
         IF r.ok
         THEN /\ gene_history' = r.map
              /\ homologs_out' = <<HomologHeader>>
              /\ line_i' = 1
              /\ pc' = "loop"
         ELSE /\ pc' = "IndexError"
              /\ UNCHANGED <<gene_history, homologs_out, line_i>>
    /\ UNCHANGED <<dvars, homologs_remote, history_remote, homologs, log, gvars, mvars>>

\* Mutant: a replacement id that is itself a key of the history with a
\* current id is resolved once more.
ResolvedGeneIdFollowsChain(columns, gene_id_status) ==
    IF gene_id_status = <<>> THEN Col(columns, entrez_id)
    ELSE LET next == DictGet(gene_history,
                             <<Col(columns, tax_id), gene_id_status[1]>>)
         IN IF next = <<>> \/ next = <<"-">> THEN gene_id_status[1] ELSE next[1]

\* Mutant: the history's replacement id is ignored.
ResolvedGeneIdKeepsOld(columns, gene_id_status) == Col(columns, entrez_id)

\* Mutant: the taxonomy filter lets every line through.
TaxRelevantAlways(columns) == TRUE

\* The gene id a kept line is written with (lines 72-76).
ResolvedGeneId(columns, gene_id_status) ==
    IF gene_id_status = <<>> THEN Col(columns, entrez_id)
    ELSE gene_id_status[1]

\* Line 66: columns[tax_id] in common_tax_ids
TaxRelevant(columns) == Col(columns, tax_id) \in SeqRange(common_taxids)

\* Line 68: gene_id_status == '-'
IsDiscontinued(gene_id_status) == gene_id_status = <<"-">>

\* prepare_data lines 58-78: one pass of the for loop
HLine ==
    /\ pc = "loop"
    /\ line_i <= Len(homologs)
    /\ LET columns == homologs[line_i] IN
         IF IndexError(columns, tax_id) \/ IndexError(columns, entrez_id)
         THEN /\ pc' = "IndexError"
              /\ UNCHANGED <<line_i, homologs_out, log>>
         ELSE LET gene_id_status ==
                      DictGet(gene_history,
                              <<Col(columns, tax_id), Col(columns, entrez_id)>>)
              IN
              /\ pc' = "loop"
              /\ line_i' = line_i + 1
              /\ IF ~TaxRelevant(columns)
                 THEN UNCHANGED <<homologs_out, log>>
                 ELSE IF IsDiscontinued(gene_id_status)
                 THEN /\ log' = Append(log, <<Col(columns, entrez_id),
                                               "is discontinued">>)
                      /\ UNCHANGED homologs_out
                 ELSE /\ log' = IF gene_id_status = <<>> THEN log
                                ELSE Append(log, <<Col(columns, entrez_id),
                                                   "is now", gene_id_status[1]>>)
                      /\ homologs_out' =
                           Append(homologs_out,
                                  <<Col(columns, group_id), Col(columns, tax_id),
                                    ResolvedGeneId(columns, gene_id_status)>>)
    /\ UNCHANGED <<dvars, homologs_remote, history_remote, homologs, gene_history,
                   gvars, mvars>>

\* prepare_data lines 80-82: write the rows to homologene.tab
HWrite ==
    /\ pc = "loop"
    /\ line_i > Len(homologs)
    /\ files' = DictSet(files, HomologFile, Raw(homologs_out, Len(homologs_out)))
    /\ pc' = "compress"
    /\ UNCHANGED <<uncompresed_size, hvars, gvars, mvars>>

\* __main__ line 88: homolog_db.to_serverfile_format()
HPackage ==
    /\ \/ Compress(HomologFile, "compress", "remove")
       \/ Remove(HomologFile, "remove", "rename")
       \/ Rename(HomologFile, "rename", "info")
       \/ CreateInfoFile("homologene", HomologFile, "Homolog Genes", "info", "done")
    /\ UNCHANGED <<hvars, gvars, mvars>>

\* The gene-info script is not running.
GIdle ==
    /\ gene_info_remote = <<>>
    /\ cached = FALSE
    /\ relevant_taxonomy_ids = {}
    /\ gene_info = EmptyDict
    /\ species_i = 0
    /\ species_genes = {}
    /\ pending = {}
    /\ parsing_msgs = 0
    /\ hr_calls = 0

\* The marker script is not running.
MIdle ==
    /\ content_remote = <<>>
    /\ content = <<>>
    /\ content_i = 0
    /\ genes_by_organism = EmptyDict
    /\ unique_rows = {}
    /\ data = <<>>

HomologInit == pc = "start" /\ DiskInit /\ HInit /\ GIdle /\ MIdle

HomologNext == HFetch \/ HFetchFails \/ HLoadHistory \/ HLine \/ HWrite \/ HPackage

SpecHomolog == HomologInit /\ [][HomologNext]_vars

----------------------------------------------------------------------------
(* Claims about the homolog build, checked under SpecHomolog.              *)

WellFormedHomolog(l) == Len(l) >= 3

HistoryKey(l) == <<l[2], l[3]>>

\* The line's gene id is marked '-' in the history mapping.
MarkedDiscontinued(l) ==
    HistoryKey(l) \in DOMAIN gene_history /\ gene_history[HistoryKey(l)] = "-"

KeptByClaim(l) ==
    WellFormedHomolog(l) /\ l[2] \in SeqRange(common_taxids) /\ ~MarkedDiscontinued(l)

RowByClaim(l) ==
    <<l[1], l[2],
      IF HistoryKey(l) \in DOMAIN gene_history THEN gene_history[HistoryKey(l)]
      ELSE l[3]>>

\* Header first, then one row per kept line of `lines`, in input order.
ExpectedTable(lines) ==
    LET kept == SelectSeq(lines, KeptByClaim)
    IN <<HomologHeader>> \o [i \in 1..Len(kept) |-> RowByClaim(kept[i])]

HomologWritten == HomologFile \in DOMAIN files

\* C1: the table written by HomologGenes.prepare_data is the header row
\* followed, in input order, by one row per relevant line that the history
\* does not mark '-': rewritten to the history's current id when (tax, entrez)
\* is a key of the history, unchanged when it is not.
C1_OutputIsHeaderThenKeptRows ==
    HomologWritten => files[HomologFile].data = ExpectedTable(homologs)

\* C1 witness: a finished build whose feed had a discontinued line (dropped)
\* and a superseded line (rewritten).
C1_Witness ==
    /\ pc = "done"
    /\ \E i \in 1..Len(homologs) :
         homologs[i][2] = "9606" /\ MarkedDiscontinued(homologs[i])
    /\ \E i \in 1..Len(homologs) :
         /\ homologs[i][2] = "9606"
         /\ HistoryKey(homologs[i]) \in DOMAIN gene_history
         /\ ~MarkedDiscontinued(homologs[i])
    /\ Len(files[HomologFile].data) = 2

\* C2: every non-header row collected or written by the homolog build has a
\* taxonomy id of the set the build filters with.
C2_EveryRowTaxRelevant ==
    /\ \A i \in 2..Len(homologs_out) :
         homologs_out[i][2] \in SeqRange(common_taxids)
    /\ HomologWritten =>
         \A i \in 2..Len(files[HomologFile].data) :
            files[HomologFile].data[i][2] \in SeqRange(common_taxids)

\* C2 witness: a finished build with a row written and a line dropped whose
\* taxonomy id is outside the set although the history gives it a current id.
C2_Witness ==
    /\ pc = "done"
    /\ Len(files[HomologFile].data) = 2
    /\ \E i \in 1..Len(homologs) :
         /\ homologs[i][2] \notin SeqRange(common_taxids)
         /\ HistoryKey(homologs[i]) \in DOMAIN gene_history
         /\ ~MarkedDiscontinued(homologs[i])

\* C3: a line with too few fields, in the homolog feed or in the history
\* feed, is skipped: it never ends the build with an IndexError.
C3_MalformedLineNeverAborts == pc # "IndexError"

\* The row a pass of the for loop appended, if it appended one.
RowAppended == Len(homologs_out') = Len(homologs_out) + 1

\* C11: a pass of the for loop that emits a row for the line (group, tax, a)
\* with history (tax, a) -> b emits the gene id b, the result of one lookup,
\* whether or not (tax, b) is itself a key of the history mapping.
C11_ResolvedOnceNoChain ==
    [][(pc = "loop" /\ RowAppended) =>
          LET l == homologs[line_i]
              row == homologs_out'[Len(homologs_out')]
          IN /\ row[1] = l[1] /\ row[2] = l[2]
             /\ HistoryKey(l) \in DOMAIN gene_history =>
                   row[3] = gene_history[HistoryKey(l)]
             /\ HistoryKey(l) \notin DOMAIN gene_history => row[3] = l[3]]_vars

\* C11 witness: a written table with a rewritten row whose (tax, gene id) is
\* itself a key of the history mapping, and a line whose replacement id the
\* history marks '-'.
C11_Witness ==
    /\ pc = "done"
    /\ \E i \in 1..Len(homologs) :
         /\ homologs[i][2] = "9606"
         /\ HistoryKey(homologs[i]) \in DOMAIN gene_history
         /\ <<"9606", gene_history[HistoryKey(homologs[i])]>> \in DOMAIN gene_history
         /\ gene_history[<<"9606", gene_history[HistoryKey(homologs[i])]>>] = "-"
    /\ \E r \in 2..Len(files[HomologFile].data) :
         /\ files[HomologFile].data[r][3] # "-"
         /\ <<files[HomologFile].data[r][2], files[HomologFile].data[r][3]>>
               \in DOMAIN gene_history

----------------------------------------------------------------------------
(* GeneInfo and the __main__ loop (ncbi_gene_info.py).                     *)

\* Column indexes of a gene_info line (lines 24-27).
gi_tax_id == 0
gi_gene_id == 1
gi_symbol == 2
gi_description == 8
gi_modification_date == 14

\* common_taxid_to_name(tax)
common_taxid_to_name(tax) ==
    IF tax = "9606" THEN "Homo sapiens" ELSE "Mus musculus"

\* GeneInfo.__init__: self.file_name, self.title
GeneInfoFile(taxonomy_id) == taxonomy_id \o ".sqlite"
GeneInfoTitle(taxonomy_id) == "Gene Info: " \o common_taxid_to_name(taxonomy_id)

\* Bound of the feed explored.
MaxGeneInfoLines == 2

GeneInfoHeader == <<"#tax_id", "GeneID", "Symbol">>

\* A line with all 16 columns, and a line cut after the symbol.
FullLine(t, g) ==
    <<t, g, "SYM", "-", "-", "-", "-", "-", "-", "-", "-", "-", "-", "-",
      "20190101", "-">>
ShortLine(t, g) == <<t, g, "SYM">>

GeneInfoTax == {"9606", "63221", "10090", "1"}
GeneInfoGene == {"g1", "g2"}

GeneInfoLines ==
    {FullLine(t, g) : t \in GeneInfoTax, g \in GeneInfoGene}
        \cup {ShortLine("9606", "g1"), ShortLine("10090", "g2"), <<"1">>}

\* gene_info[k].add(x) on a defaultdict(set)
DictAdd(d, k, x) == DictSet(d, k, (IF k \in DOMAIN d THEN d[k] ELSE {}) \cup {x})

\* handle_response lines 77-83: the loop over the lines after the header
RECURSIVE ParseLoop(_, _, _)
ParseLoop(lines, relevant, acc) ==
    IF lines = <<>> THEN acc
    ELSE LET info == Head(lines) IN
         ParseLoop(Tail(lines), relevant,
                   IF Col(info, gi_tax_id) \in relevant
                   THEN DictAdd(acc, Col(info, gi_tax_id), info)
                   ELSE acc)

\* Mutant: a call that finds the mapping filled empties it before returning.
handle_responseResets(gi, feed, relevant) ==
    IF DOMAIN gi # {}
    THEN [gene_info |-> EmptyDict, parsed |-> FALSE]
    ELSE [gene_info |-> ParseLoop(IF feed = <<>> THEN <<>> ELSE Tail(feed),
                                  relevant, EmptyDict),
          parsed |-> TRUE]

\* GeneInfo.handle_response, lines 66-83: the new value of the global
\* gene_info, and whether the feed was parsed.
handle_response(gi, feed, relevant) ==
    IF DOMAIN gi # {}
    THEN [gene_info |-> gi, parsed |-> FALSE]
    ELSE [gene_info |-> ParseLoop(IF feed = <<>> THEN <<>> ELSE Tail(feed),
                                  relevant, EmptyDict),
          parsed |-> TRUE]

\* Mutant: gene_info[_tax] on the defaultdict, which inserts a missing key.
LookupByIndexing(gi, tax) ==
    IF tax \in DOMAIN gi THEN [value |-> gi[tax], dict |-> gi]
    ELSE [value |-> {}, dict |-> DictSet(gi, tax, {})]

\* gene_info.get(_tax, []), line 94: the value read and the mapping after it
Lookup(gi, tax) ==
    [value |-> IF tax \in DOMAIN gi THEN gi[tax] ELSE {}, dict |-> gi]

\* Mutant: the strains are left out.
SpeciesTaxaNoStrains(taxonomy_id) == <<taxonomy_id>>

\* Line 93: [self.taxonomy_id] + taxonomy_db.get_all_strains(self.taxonomy_id)
SpeciesTaxa(taxonomy_id) == <<taxonomy_id>> \o get_all_strains(taxonomy_id)

\* prepare_data lines 92-94: the for loop that fills species_genes
RECURSIVE UnionLoop(_, _, _)
UnionLoop(taxa, gi, acc) ==
    IF taxa = <<>> THEN [species_genes |-> acc, gene_info |-> gi]
    ELSE LET r == Lookup(gi, Head(taxa)) IN
         UnionLoop(Tail(taxa), r.dict, acc \cup r.value)

\* x if x != '-' else None
NullIfDash(x) == IF x = "-" THEN <<>> ELSE <<x>>

\* The tuple inserted for a gene (lines 108-123), the modelled columns.
Row(taxonomy_id, gene) ==
    [species |-> common_taxid_to_name(taxonomy_id),
     tax_id |-> Col(gene, gi_tax_id),
     gene_id |-> Col(gene, gi_gene_id),
     symbol |-> Col(gene, gi_symbol),
     description |-> NullIfDash(Col(gene, gi_description)),
     modification_date |-> Col(gene, gi_modification_date)]

\* Building the tuple of a gene raises IndexError.
RowIndexError(gene) == IndexError(gene, gi_modification_date)

\* The sqlite file: whether table gene_info exists, its committed rows and
\* whether the full-text index was built.
Db(has_table, rows, fts) ==
    Raw([has_table |-> has_table, rows |-> rows, fts |-> fts], Cardinality(rows))

CurrentSpecies == common_taxids[species_i]

GInit ==
    /\ gene_info_remote \in
         {<<GeneInfoHeader>> \o b : b \in SeqsUpTo(GeneInfoLines, 0, MaxGeneInfoLines)}
    /\ cached = FALSE
    /\ relevant_taxonomy_ids = {}
    /\ gene_info = EmptyDict
    /\ species_i = 0
    /\ species_genes = {}
    /\ pending = {}
    /\ parsing_msgs = 0
    /\ hr_calls = 0

HIdle ==
    /\ homologs_remote = <<>>
    /\ history_remote = <<>>
    /\ homologs = <<>>
    /\ gene_history = EmptyDict
    /\ line_i = 0
    /\ homologs_out = <<>>
    /\ log = <<>>

\* __main__ lines 141-144: fill relevant_taxonomy_ids
GTaxonomies ==
    /\ pc = "start"
    /\ relevant_taxonomy_ids' =
         UNION {{t} \cup SeqRange(get_all_strains(t)) : t \in SeqRange(common_taxids)}
    /\ species_i' = 1
    /\ pc' = "new"
    /\ UNCHANGED <<dvars, hvars, mvars, gene_info_remote, cached, gene_info,
                   species_genes, pending, parsing_msgs, hr_calls>>

\* __main__ lines 148-149 and prepare_data line 86: the next GeneInfo
GNew ==
    /\ pc = "new"
    /\ species_i <= Len(common_taxids)
    /\ pc' = "fetch"
    /\ UNCHANGED <<dvars, hvars, gvars, mvars>>

\* __main__ line 148: the loop has no species left
GFinish ==
    /\ pc = "new"
    /\ species_i > Len(common_taxids)
    /\ pc' = "done"
    /\ UNCHANGED <<dvars, hvars, gvars, mvars>>

\* prepare_data line 88: the response, from the network or from the cache
\* installed at line 17
GFetch ==
    /\ pc = "fetch"
    /\ cached' = TRUE
    /\ pc' = "handle"
    /\ UNCHANGED <<dvars, hvars, mvars, gene_info_remote, relevant_taxonomy_ids,
                   gene_info, species_i, species_genes, pending, parsing_msgs,
                   hr_calls>>

\* fetch_url re-raises an HTTP or connection error (no cached response)
GFetchFails ==
    /\ pc = "fetch"
    /\ ~cached
    /\ pc' = "RequestException"
    /\ UNCHANGED <<dvars, hvars, gvars, mvars>>

\* prepare_data line 90: self.handle_response(response)
GHandleResponse ==
    /\ pc = "handle"
    /\ LET r == handle_response(gene_info, gene_info_remote, relevant_taxonomy_ids)
       IN /\ gene_info' = r.gene_info
          /\ parsing_msgs' = IF r.parsed THEN parsing_msgs + 1 ELSE parsing_msgs
    /\ hr_calls' = hr_calls + 1
    /\ pc' = "union"
    /\ UNCHANGED <<dvars, hvars, mvars, gene_info_remote, cached, relevant_taxonomy_ids,
                   species_i, species_genes, pending>>

\* prepare_data lines 92-94
GUnion ==
    /\ pc = "union"
    /\ LET r == UnionLoop(SpeciesTaxa(CurrentSpecies), gene_info, {})
       IN /\ species_genes' = r.species_genes
          /\ gene_info' = r.gene_info
    /\ pc' = "connect"
    /\ UNCHANGED <<dvars, hvars, mvars, gene_info_remote, cached, relevant_taxonomy_ids,
                   species_i, pending, parsing_msgs, hr_calls>>

\* prepare_data lines 96-99: sqlite3.connect creates the file when missing
GConnect ==
    /\ pc = "connect"
    /\ files' = IF GeneInfoFile(CurrentSpecies) \in DOMAIN files THEN files
                ELSE DictSet(files, GeneInfoFile(CurrentSpecies), Db(FALSE, {}, FALSE))
    /\ pc' = "drop"
    /\ UNCHANGED <<uncompresed_size, hvars, gvars, mvars>>

\* prepare_data line 101: DROP TABLE IF EXISTS 'gene_info'
GDropTable ==
    /\ pc = "drop"
    /\ files' = DictSet(files, GeneInfoFile(CurrentSpecies), Db(FALSE, {}, FALSE))
    /\ pc' = "create"
    /\ UNCHANGED <<uncompresed_size, hvars, gvars, mvars>>

\* prepare_data line 102: CREATE TABLE "gene_info"
GCreateTable ==
    /\ pc = "create"
    /\ files' = DictSet(files, GeneInfoFile(CurrentSpecies), Db(TRUE, {}, FALSE))
    /\ pc' = "insert"
    /\ UNCHANGED <<uncompresed_size, hvars, gvars, mvars>>

\* prepare_data lines 104-127: executemany over species_genes, a set, so in
\* any order.  A gene with too few columns raises IndexError when reached; a
\* second gene with a gene_id already inserted violates UNIQUE.  The rows
\* inserted before an exception are never committed.
GInsert ==
    /\ pc = "insert"
    /\ \/ /\ \E gene \in species_genes : RowIndexError(gene)
          /\ pc' = "IndexError"
          /\ UNCHANGED pending
       \/ /\ \E g1, g2 \in species_genes :
               /\ g1 # g2
               /\ ~RowIndexError(g1) /\ ~RowIndexError(g2)
               /\ Col(g1, gi_gene_id) = Col(g2, gi_gene_id)
          /\ pc' = "IntegrityError"
          /\ UNCHANGED pending
       \/ /\ \A gene \in species_genes : ~RowIndexError(gene)
          /\ \A g1, g2 \in species_genes :
               g1 # g2 => Col(g1, gi_gene_id) # Col(g2, gi_gene_id)
          /\ pending' = {Row(CurrentSpecies, gene) : gene \in species_genes}
          /\ pc' = "commit"
    /\ UNCHANGED <<dvars, hvars, mvars, gene_info_remote, cached, relevant_taxonomy_ids,
                   gene_info, species_i, species_genes, parsing_msgs, hr_calls>>

\* prepare_data line 129: con.commit()
GCommit ==
    /\ pc = "commit"
    /\ files' = DictSet(files, GeneInfoFile(CurrentSpecies), Db(TRUE, pending, FALSE))
    /\ pending' = {}
    /\ pc' = "fts"
    /\ UNCHANGED <<uncompresed_size, hvars, mvars, gene_info_remote, cached,
                   relevant_taxonomy_ids, gene_info, species_i, species_genes,
                   parsing_msgs, hr_calls>>

\* prepare_data lines 130-134: enable_fts, optimize, close
GFts ==
    /\ pc = "fts"
    /\ files' = DictSet(files, GeneInfoFile(CurrentSpecies),
                        Db(TRUE, files[GeneInfoFile(CurrentSpecies)].data.rows, TRUE))
    /\ pc' = "compress"
    /\ UNCHANGED <<uncompresed_size, hvars, gvars, mvars>>

\* __main__ line 151: gi.to_serverfile_format(), up to the sidecar
GPackage ==
    /\ \/ Compress(GeneInfoFile(CurrentSpecies), "compress", "remove")
       \/ Remove(GeneInfoFile(CurrentSpecies), "remove", "rename")
       \/ Rename(GeneInfoFile(CurrentSpecies), "rename", "info")
    /\ UNCHANGED <<hvars, gvars, mvars>>

\* to_serverfile_format writes the sidecar; the for loop takes the next species
GNextSpecies ==
    /\ CreateInfoFile("gene_info", GeneInfoFile(CurrentSpecies), GeneInfoTitle(CurrentSpecies),
                      "info", "new")
    /\ species_i' = species_i + 1
    /\ UNCHANGED <<hvars, mvars, gene_info_remote, cached, relevant_taxonomy_ids,
                   gene_info, species_genes, pending, parsing_msgs, hr_calls>>

GeneInfoInit == pc = "start" /\ DiskInit /\ HIdle /\ GInit /\ MIdle

GeneInfoNext ==
    \/ GTaxonomies \/ GNew \/ GFinish \/ GFetch \/ GFetchFails
    \/ GHandleResponse \/ GUnion \/ GConnect \/ GDropTable \/ GCreateTable
    \/ GInsert \/ GCommit \/ GFts \/ GPackage \/ GNextSpecies

SpecGeneInfo == GeneInfoInit /\ [][GeneInfoNext]_vars

----------------------------------------------------------------------------
(* Claims about the gene-info build, checked under SpecGeneInfo.           *)

\* The run ended with an uncaught exception.
Failed == pc \in {"RequestException", "IndexError", "IntegrityError"}

\* C4: when a run fails with a fatal error, it leaves no output artifact or
\* sidecar on disk (the run starts with an empty working directory, so every
\* file there is one the run wrote).
C4_FailureLeavesNoOutput == Failed => DOMAIN files = {}

\* C5: once handle_response has returned, a further call with the same feed
\* and the same relevant set leaves the gene_info mapping as it was.
C5_SecondCallKeepsMapping == [][hr_calls >= 1 => gene_info' = gene_info]_vars

\* C5 witness: two calls returned, the first having filled the mapping.
C5_Witness == hr_calls = 2 /\ DOMAIN gene_info # {} /\ parsing_msgs = 1

\* C6: within one process the feed is parsed by the first handle_response
\* call only: no later call parses it again.
C6_FeedParsedOnce == parsing_msgs <= 1

\* The partition of a taxonomy id; empty when the id has none.
Partition(tax) == IF tax \in DOMAIN gene_info THEN gene_info[tax] ELSE {}

SpeciesAndStrains(tax) == {tax} \cup SeqRange(get_all_strains(tax))

GenesOfSpecies(tax) == UNION {Partition(t) : t \in SpeciesAndStrains(tax)}

\* C7: the record set prepare_data builds and stores for a species is the
\* union of the partitions of the species and of its strains, an id without
\* partition counting as empty; building it raises nothing and leaves the
\* key set of the partitioned mapping as it was.
C7_SpeciesGenesIsUnionOfPartitions ==
    /\ [](pc \in {"connect", "drop", "create", "insert", "commit"}
            => species_genes = GenesOfSpecies(CurrentSpecies))
    /\ [](pc \in {"fts", "compress"}
            => files[GeneInfoFile(CurrentSpecies)].data.rows
                 = {Row(CurrentSpecies, g) : g \in GenesOfSpecies(CurrentSpecies)})
    /\ [][pc = "union" => pc' = "connect" /\ DOMAIN gene_info' = DOMAIN gene_info]_vars

\* C7 witness: the rows of a species with a strain are committed, with
\* records of the species and of the strain, while another relevant id has no
\* partition.
C7_Witness ==
    /\ pc = "fts"
    /\ CurrentSpecies = "9606"
    /\ Partition("9606") # {}
    /\ Partition("63221") # {}
    /\ "10090" \notin DOMAIN gene_info

----------------------------------------------------------------------------
(* Strings that the code parses are sequences of characters.               *)

Digits == {"0", "1", "2", "3", "4", "5", "6", "7", "8", "9"}

RECURSIVE LStrip(_)
LStrip(s) == IF s # <<>> /\ Head(s) = " " THEN LStrip(Tail(s)) ELSE s

RECURSIVE RStrip(_)
RStrip(s) ==
    IF s # <<>> /\ s[Len(s)] = " " THEN RStrip(SubSeq(s, 1, Len(s) - 1)) ELSE s

Unsigned(s) == IF s # <<>> /\ Head(s) \in {"+", "-"} THEN Tail(s) ELSE s

\* Decimal digits, single underscores allowed between digits.
DigitString(s) ==
    /\ Len(s) >= 1
    /\ s[1] \in Digits /\ s[Len(s)] \in Digits
    /\ \A i \in 1..Len(s) : s[i] \in Digits \cup {"_"}
    /\ \A i \in 1..(Len(s) - 1) : ~(s[i] = "_" /\ s[i + 1] = "_")

\* int(s) does not raise ValueError: surrounding blanks, an optional sign,
\* then a digit string.
ParsesAsInt(s) == DigitString(Unsigned(RStrip(LStrip(s))))

\* template.format(value): every '{}' part of the template is the value
RECURSIVE Format(_, _)
Format(template, value) ==
    IF template = <<>> THEN <<>>
    ELSE (IF Head(template) = "{}" THEN value ELSE <<Head(template)>>)
            \o Format(Tail(template), value)

NotBracket(ch) == ch \notin {"[", "]"}

\* column.replace('[', '').replace(']', '').split(', '), the column given as
\* its ', '-separated pieces
SplitValues(column) == [i \in 1..Len(column) |-> SelectSeq(column[i], NotBracket)]

Min(a, b) == IF a <= b THEN a ELSE b

\* list(zip(xs, ys))
Zip(xs, ys) == [i \in 1..Min(Len(xs), Len(ys)) |-> <<xs[i], ys[i]>>]

\* fetch_url re-raises an HTTP or connection error
MFetchFails ==
    /\ pc = "start"
    /\ pc' = "RequestException"
    /\ UNCHANGED <<dvars, hvars, gvars, mvars>>

\* prepare_data: fetch the feed, decode it and split it in lines
MFetch ==
    /\ pc = "start"
    /\ content' = content_remote
    /\ content_i' = 1
    /\ pc' = "loop"
    /\ UNCHANGED <<dvars, hvars, gvars, content_remote, genes_by_organism,
                   unique_rows, data>>

----------------------------------------------------------------------------
(* CellMarkerDB (marker_genes.py lines 82-166).                            *)

species_col == 0
cell_name_col == 5
gene_symbol_col == 8
entrez_id_col == 9
pubmed_id_col == 13

organisms == {"Human", "Mouse"}

\* CellMarkerDB.__init__ line 93
cm_reference == <<"{}">>
cm_reference_url == <<"https://www.ncbi.nlm.nih.gov/pubmed/?term=", "{}">>

CellMarkerFile == "cellMarker_gene_markers.tab"

\* Bound of the feed explored.
MaxCellMarkerLines == 2

\* A line with all 15 columns.
CMLine(org, cell, syms, ids, pmid) ==
    <<org, "-", "-", "-", "-", cell, "-", "-", syms, ids, "-", "-", "-", pmid, "-">>

\* The same line cut after the entrez id column.
CMShortLine(org, cell, syms, ids) ==
    <<org, "-", "-", "-", "-", cell, "-", "-", syms, ids>>

\* Symbol and entrez id columns, as their ', '-separated pieces:
\* "A" / "1";  "[A, B]" / "[1, 2]";  "A, B" / "NA, 1";  "A, B" / "2"
CMGeneColumns ==
    { << <<<<"A">>>>, <<<<"1">>>> >>,
      << <<<<"[", "A">>, <<"B", "]">>>>, <<<<"[", "1">>, <<"2", "]">>>> >>,
      << <<<<"A">>, <<"B">>>>, <<<<"N", "A">>, <<"1">>>> >>,
      << <<<<"A">>, <<"B">>>>, <<<<"2">>>> >> }

CMPubmed == {<<"7">>, <<"C", "o">>}

CellMarkerLines ==
    {CMLine("Human", c, g[1], g[2], p) :
        c \in {"c1", "c2"}, g \in CMGeneColumns, p \in CMPubmed}
      \cup {CMLine("Mouse", "c1", g[1], g[2], p) : g \in CMGeneColumns, p \in CMPubmed}
      \cup {CMLine("Rat", "c1", <<<<"A">>>>, <<<<"1">>>>, <<"7">>),
            CMLine("Human", "c1", <<<<"A">>>>, <<<<"1">>>>, <<"+", "7">>),
            CMLine("Human", "c1", <<<<"A">>>>, <<<<" ", "1">>>>, <<"1", "_", "0">>),
            CMShortLine("Human", "c1", <<<<"A">>>>, <<<<"1">>>>),
            <<"Mouse">>, <<"Rat">>}

\* Mutant: the organism is part of the deduplication key.
RowKeyPerOrganism(columns, entrez) ==
    <<Col(columns, species_col), Col(columns, cell_name_col), entrez>>

\* Lines 134 and 146: the key kept in unique_rows
RowKey(columns, entrez) == <<Col(columns, cell_name_col), entrez>>

\* Mutant: every reference is given the PubMed link.
RefLinkAlwaysPubmed(pubmed_id) == Format(cm_reference_url, pubmed_id)

\* Lines 137-144: ref_link of a raw reference value
RefLink(pubmed_id) ==
    IF ParsesAsInt(Format(cm_reference, pubmed_id))
    THEN Format(cm_reference_url, pubmed_id)
    ELSE <<"?">>

\* Lines 128-154: the loop over zip(symbols, entrez_ids) of one line
RECURSIVE PairLoop(_, _, _, _)
PairLoop(columns, pairs, ur, d) ==
    IF pairs = <<>> THEN [error |-> FALSE, unique_rows |-> ur, data |-> d]
    ELSE LET symbol == Head(pairs)[1]
             entrez == Head(pairs)[2]
         IN IF ~ParsesAsInt(entrez) THEN PairLoop(columns, Tail(pairs), ur, d)
            ELSE IF RowKey(columns, entrez) \in ur
            THEN PairLoop(columns, Tail(pairs), ur, d)
            ELSE IF IndexError(columns, pubmed_id_col)
            THEN [error |-> TRUE, unique_rows |-> ur, data |-> d]
            ELSE PairLoop(columns, Tail(pairs),
                          ur \cup {RowKey(columns, entrez)},
                          Append(d, <<Col(columns, species_col),
                                      symbol,
                                      Col(columns, cell_name_col),
                                      Format(cm_reference, Col(columns, pubmed_id_col)),
                                      RefLink(Col(columns, pubmed_id_col)),
                                      entrez>>))

\* Lines 121-154: the body of the for loop over the lines
CellMarkerLine(columns, ur, d) ==
    IF Col(columns, species_col) \notin organisms
    THEN [error |-> FALSE, unique_rows |-> ur, data |-> d]
    ELSE IF IndexError(columns, gene_symbol_col) \/ IndexError(columns, entrez_id_col)
    THEN [error |-> TRUE, unique_rows |-> ur, data |-> d]
    ELSE PairLoop(columns,
                  Zip(SplitValues(Col(columns, gene_symbol_col)),
                      SplitValues(Col(columns, entrez_id_col))),
                  ur, d)

CInit ==
    /\ content_remote \in SeqsUpTo(CellMarkerLines, 1, MaxCellMarkerLines)
    /\ content = <<>>
    /\ content_i = 0
    /\ genes_by_organism = EmptyDict
    /\ unique_rows = {}
    /\ data = <<>>

\* prepare_data lines 120-154: one pass of the for loop
CLine ==
    /\ pc = "loop"
    /\ content_i <= Len(content)
    /\ LET r == CellMarkerLine(content[content_i], unique_rows, data)
       IN /\ unique_rows' = r.unique_rows
          /\ data' = r.data
          /\ IF r.error
             THEN pc' = "IndexError" /\ UNCHANGED content_i
             ELSE pc' = "loop" /\ content_i' = content_i + 1
    /\ UNCHANGED <<dvars, hvars, gvars, content_remote, content, genes_by_organism>>

\* prepare_data lines 156-166 and __main__ line 177: the table of the
\* entries is saved (the Function column, read from the gene annotation
\* service, is not modelled)
CSave ==
    /\ pc = "loop"
    /\ content_i > Len(content)
    /\ files' = DictSet(files, CellMarkerFile, Raw(data, Len(data)))
    /\ pc' = "compress"
    /\ UNCHANGED <<uncompresed_size, hvars, gvars, mvars>>

\* __main__ line 178: cell_marker_db.to_serverfile_format()
CPackage ==
    /\ \/ Compress(CellMarkerFile, "compress", "remove")
       \/ Remove(CellMarkerFile, "remove", "rename")
       \/ Rename(CellMarkerFile, "rename", "info")
       \/ CreateInfoFile("marker_genes", CellMarkerFile, "Marker Genes: CellMarker",
                         "info", "done")
    /\ UNCHANGED <<hvars, gvars, mvars>>

CellMarkerInit == pc = "start" /\ DiskInit /\ HIdle /\ GIdle /\ CInit

CellMarkerNext == MFetch \/ MFetchFails \/ CLine \/ CSave \/ CPackage

SpecCellMarker == CellMarkerInit /\ [][CellMarkerNext]_vars

----------------------------------------------------------------------------
(* PanglaoDB (marker_genes.py lines 12-79).                                *)

species == 0
gene_symbol == 1
cell_type == 2

\* Mutant: the two organism names are exchanged.
organism_mapperSwapped == ("Mm" :> "Human") @@ ("Hs" :> "Mouse")

\* prepare_data line 38
organism_mapper == ("Mm" :> "Mouse") @@ ("Hs" :> "Human")

\* PanglaoDB.__init__ line 23
panglao_reference == "PanglaoDB"
panglao_reference_url == "https://panglaodb.se/"

PanglaoFile == "panglao_gene_markers.tab"

\* Bound of the feed explored.
MaxPanglaoLines == 2

\* The species field, as its ' '-separated codes.
PanglaoCodes ==
    {<<"Mm">>, <<"Hs">>, <<"Mm", "Hs">>, <<"Hs", "Mm">>, <<"Xx">>, <<"Mm", "Xx">>,
     <<"Hs", "Hs">>}

PanglaoLines ==
    {<<codes, s, c>> : codes \in PanglaoCodes, s \in {"A", "B"}, c \in {"c1", "c2"}}
        \cup {<< <<"Mm">> >>, << <<"Xx">> >>, << <<"Xx", "Hs">>, "A" >>}

\* genes_by_organism[k].append(x) on a defaultdict(list)
DictAppend(d, k, x) ==
    DictSet(d, k, Append(IF k \in DOMAIN d THEN d[k] ELSE <<>>, x))

\* genes_by_organism[k] on a defaultdict(list): a missing key is inserted
DictTouch(d, k) == IF k \in DOMAIN d THEN d ELSE DictSet(d, k, <<>>)

\* Lines 48-55: the loop over the codes of one line
RECURSIVE OrgLoop(_, _, _)
OrgLoop(columns, orgs, gbo) ==
    IF orgs = <<>> THEN [error |-> FALSE, genes_by_organism |-> gbo]
    ELSE LET org == Head(orgs) IN
         IF org \notin DOMAIN organism_mapper THEN OrgLoop(columns, Tail(orgs), gbo)
         ELSE IF IndexError(columns, gene_symbol) \/ IndexError(columns, cell_type)
         THEN [error |-> TRUE, genes_by_organism |-> gbo]
         ELSE OrgLoop(columns, Tail(orgs),
                      DictAppend(gbo, organism_mapper[org],
                                 <<organism_mapper[org],
                                   Col(columns, gene_symbol),
                                   Col(columns, cell_type),
                                   panglao_reference,
                                   panglao_reference_url>>))

PInit ==
    /\ content_remote \in SeqsUpTo(PanglaoLines, 1, MaxPanglaoLines)
    /\ content = <<>>
    /\ content_i = 0
    /\ genes_by_organism = EmptyDict
    /\ unique_rows = {}
    /\ data = <<>>

\* prepare_data lines 45-55: one pass of the for loop
PLine ==
    /\ pc = "loop"
    /\ content_i <= Len(content)
    /\ LET columns == content[content_i]
           r == OrgLoop(columns, Col(columns, species), genes_by_organism)
       IN /\ genes_by_organism' = r.genes_by_organism
          /\ IF r.error
             THEN pc' = "IndexError" /\ UNCHANGED content_i
             ELSE pc' = "loop" /\ content_i' = content_i + 1
    /\ UNCHANGED <<dvars, hvars, gvars, content_remote, content, unique_rows, data>>

\* prepare_data lines 57-79 and __main__ line 172: the mouse table, then the
\* human table, are concatenated and saved (the Entrez ID and Function
\* columns, filled by the gene matcher, are not modelled)
PSave ==
    /\ pc = "loop"
    /\ content_i > Len(content)
    /\ LET gbo == DictTouch(DictTouch(genes_by_organism, "Mouse"), "Human")
           rows == gbo["Mouse"] \o gbo["Human"]
       IN /\ genes_by_organism' = gbo
          /\ files' = DictSet(files, PanglaoFile, Raw(rows, Len(rows)))
    /\ pc' = "compress"
    /\ UNCHANGED <<uncompresed_size, hvars, gvars, content_remote, content,
                   content_i, unique_rows, data>>

\* __main__ line 173: pang_db.to_serverfile_format()
PPackage ==
    /\ \/ Compress(PanglaoFile, "compress", "remove")
       \/ Remove(PanglaoFile, "remove", "rename")
       \/ Rename(PanglaoFile, "rename", "info")
       \/ CreateInfoFile("marker_genes", PanglaoFile, "Marker Genes: PanglaoDB",
                         "info", "done")
    /\ UNCHANGED <<hvars, gvars, mvars>>

PanglaoInit == pc = "start" /\ DiskInit /\ HIdle /\ GIdle /\ PInit

PanglaoNext == MFetch \/ MFetchFails \/ PLine \/ PSave \/ PPackage

SpecPanglao == PanglaoInit /\ [][PanglaoNext]_vars

----------------------------------------------------------------------------
(* Claims about the CellMarker build, checked under SpecCellMarker.        *)

\* The lines the for loop has finished.
LinesDone == SubSeq(content, 1, content_i - 1)

\* The (line, pair) positions of a line that reach the deduplication test.
PairsOfLine(l) ==
    IF l[1] \notin {"Human", "Mouse"} THEN {}
    ELSE {j \in 1..Min(Len(l[9]), Len(l[10])) : ParsesAsInt(SplitValues(l[10])[j])}

Occurrences(lines) ==
    UNION {{<<i, j>> : j \in PairsOfLine(lines[i])} : i \in 1..Len(lines)}

KeyAt(lines, o) == <<lines[o[1]][6], SplitValues(lines[o[1]][10])[o[2]]>>

Before(o1, o2) == o1[1] < o2[1] \/ (o1[1] = o2[1] /\ o1[2] < o2[2])

\* The occurrences that are the first of their key.
FirstOccurrences(lines) ==
    {o \in Occurrences(lines) :
        \A o2 \in Occurrences(lines) :
            Before(o2, o) => KeyAt(lines, o2) # KeyAt(lines, o)}

\* Organism, symbol, cell type, reference and entrez id of an occurrence.
RecordAt(lines, o) ==
    LET l == lines[o[1]] IN
    <<l[1], SplitValues(l[9])[o[2]], l[6], l[14], SplitValues(l[10])[o[2]]>>

WithoutUrl(e) == <<e[1], e[2], e[3], e[4], e[6]>>

\* C8: the entries collected by CellMarkerDB.prepare_data hold at most one
\* record per (cell type, entrez id) key; the records are those of the first
\* occurrence of each key, in input order, and no others.
C8_OneRecordPerKeyFirstWins ==
    /\ \A i, j \in 1..Len(data) :
         i # j => <<data[i][3], data[i][6]>> # <<data[j][3], data[j][6]>>
    /\ pc \in {"loop", "IndexError", "compress", "remove", "rename", "info", "done"} =>
         /\ {WithoutUrl(data[i]) : i \in 1..Len(data)}
              = {RecordAt(LinesDone, o) : o \in FirstOccurrences(LinesDone)}
         /\ Len(data) = Cardinality(FirstOccurrences(LinesDone))
         /\ \A i, j \in 1..Len(data) :
              i < j => \E o1, o2 \in FirstOccurrences(LinesDone) :
                          /\ Before(o1, o2)
                          /\ WithoutUrl(data[i]) = RecordAt(LinesDone, o1)
                          /\ WithoutUrl(data[j]) = RecordAt(LinesDone, o2)

\* C8 witness: a later line repeats a key with another organism and is
\* dropped; the table is saved with the first record only.
C8_Witness ==
    /\ pc = "done"
    /\ Len(content) = 2
    /\ content[1][1] = "Human" /\ content[2][1] = "Mouse"
    /\ Len(content[1]) = 15 /\ Len(content[2]) = 15 /\ content[1][14] # content[2][14]
    /\ Len(data) = 1
    /\ data[1][1] = "Human"
    /\ PairsOfLine(content[2]) # {}

PubmedUrl(value) == <<"https://www.ncbi.nlm.nih.gov/pubmed/?term=">> \o value

\* C10: for every entry of the CellMarker build, the reference is the raw
\* reference value of its line; the reference URL is the PubMed URL of that
\* value when the value parses as an integer, and '?' otherwise.
C10_ReferenceUrl ==
    \A i \in 1..Len(data) :
        /\ \E k \in 1..Len(content) :
             /\ Len(content[k]) >= 14
             /\ content[k][6] = data[i][3]
             /\ content[k][1] = data[i][1]
             /\ content[k][14] = data[i][4]
        /\ ParsesAsInt(data[i][4]) => data[i][5] = PubmedUrl(data[i][4])
        /\ ~ParsesAsInt(data[i][4]) => data[i][5] = <<"?">>

\* C10 witness: a saved table with a PubMed reference and a reference that
\* is no integer.
C10_Witness ==
    /\ pc = "done"
    /\ \E i, j \in 1..Len(data) :
         /\ data[i][4] = <<"7">> /\ data[i][5] = PubmedUrl(<<"7">>)
         /\ data[j][4] = <<"C", "o">> /\ data[j][5] = <<"?">>

----------------------------------------------------------------------------
(* Claims about the Panglao build, checked under SpecPanglao.              *)

Repeat(x, n) == [i \in 1..n |-> x]

CountOf(codes, code) == Cardinality({i \in 1..Len(codes) : codes[i] = code})

\* One record per occurrence of `code` in each line, in input order.
RECURSIVE PanglaoExpected(_, _, _)
PanglaoExpected(lines, code, name) ==
    IF lines = <<>> THEN <<>>
    ELSE LET l == Head(lines) IN
         Repeat(<<name, l[2], l[3], "PanglaoDB", "https://panglaodb.se/">>,
                CountOf(l[1], code))
            \o PanglaoExpected(Tail(lines), code, name)

EntriesOf(name) ==
    IF name \in DOMAIN genes_by_organism THEN genes_by_organism[name] ELSE <<>>

\* C9: the entries collected by PanglaoDB.prepare_data are, per organism,
\* one record per occurrence of its code (Mm for Mouse, Hs for Human) in the
\* species field of each line, with the line's gene symbol and cell type; no
\* other code adds a record, and a line without a recognized code raises
\* nothing.
C9_OneRecordPerRecognizedCode ==
    /\ DOMAIN genes_by_organism \subseteq {"Mouse", "Human"}
    /\ pc \notin {"start", "RequestException"} =>
         /\ EntriesOf("Mouse") = PanglaoExpected(LinesDone, "Mm", "Mouse")
         /\ EntriesOf("Human") = PanglaoExpected(LinesDone, "Hs", "Human")
    /\ pc = "IndexError" =>
         \E i \in 1..Len(content[content_i][1]) :
            content[content_i][1][i] \in {"Mm", "Hs"}

\* C9 witness: a finished build over a line with both codes and a line with
\* an unrecognized code only.
C9_Witness ==
    /\ pc = "done"
    /\ \E i \in 1..Len(content) : content[i][1] = <<"Mm", "Hs">>
    /\ \E i \in 1..Len(content) : content[i][1] = <<"Xx">>
    /\ Len(EntriesOf("Mouse")) = 1 /\ Len(EntriesOf("Human")) = 1

====
